---- MODULE Spec2Model ----
(***************************************************************************)
(* Model of the upload client of the Palace VR180 launcher                 *)
(* (src/streamlit_app.py, main, lines 103-110 and 219-310).                *)
(*                                                                         *)
(* One Streamlit session: the sidebar text input that sets the session's   *)
(* backend URL, the file uploader, and the handler of the "Start VR180     *)
(* Conversion" button with its wake probe / upload / retry loop.  The      *)
(* handler runs sequentially; it is modelled one step per network call,    *)
(* sleep and response classification so that their order can be stated.    *)
(***************************************************************************)
EXTENDS Integers, Sequences, FiniteSets, TLC

VARIABLES
    backend_url,    \* st.session_state.backend_url
    uploaded_file,  \* the value of st.file_uploader: NoFile or [name, size, data]
    pos,            \* read position of the uploaded file object (in blocks)
    pc,             \* position of the button handler
    attempt,        \* loop variable of `for attempt in range(max_retries)`
    response,       \* the local `response`: NoResponse or [status_code, text]
    log,            \* effects of the current operation: GET, POST, sleep, in order
    msgs,           \* what the handler has shown: st.info/warning/success/error
    overrun,        \* a network call of the current operation lasted longer
                    \* than its timeout= argument
    frontend_ok,    \* test_deployment.py, main: result of test_frontend_build
    backend_ok      \* test_deployment.py, main: result of test_backend_connection

\* the locals of the deployment diagnostic; the dashboard never touches them
dvars == <<frontend_ok, backend_ok>>

vars == <<backend_url, uploaded_file, pos, pc, attempt, response, log, msgs,
          overrun, frontend_ok, backend_ok>>

----------------------------------------------------------------------------
(* Program constants *)

BACKEND_URL == "https://vr-final.onrender.com"

max_retries == 3

retry_delay == 5

WAKE_TIMEOUT == 10

UPLOAD_TIMEOUT == 300

HTTP_OK == 200

\* "Max 500MB" of the uploader's help text (line 222), in bytes; no statement
\* of the script tests a size against it
MAX_UPLOAD_BYTES == 524288000

----------------------------------------------------------------------------
(* Bounds and input sets *)

\* longest file content, in blocks
MaxBlocks == 1

Urls == {BACKEND_URL, "http://localhost:3001"}

\* type=["mp4", "mov", "avi"] of the uploader: a name always carries an extension
FileNames == {"clip.mp4"}

\* sizes of the files a user picks: one of 1 MiB, one a byte over the 500 MiB
\* of the help text
FileSizes == {1048576, MAX_UPLOAD_BYTES + 1}

\* the size limit of st.file_uploader, in bytes: the server.maxUploadSize of
\* the Streamlit configuration, which is not set anywhere in the script;
\* Streamlit's default of 200 MB, and a deployment configured to 1 GB
UploadLimits == {209715200, 1073741824}

RECURSIVE Blocks(_)
Blocks(n) == IF n = 0 THEN <<>> ELSE Append(Blocks(n - 1), n)

FileData == {Blocks(n) : n \in 1..MaxBlocks}

\* the files a user picks; which of them the uploader hands to the script
\* depends on its limit (ChooseFile)
Files == [name : FileNames, size : FileSizes, data : FileData]

NoFile == [name |-> "", size |-> 0, data |-> <<>>]

Statuses == {200, 201, 404, 500}

\* statuses of the answer to the wake probe; its body is never read
ProbeStatuses == {200, 503}

Bodies == {"{\"jobId\":\"j1\"}", "{\"jobId\":7}", "{\"status\":\"queued\"}",
           "[\"j1\"]", "Internal Server Error"}

\* bodies of the answers with an error status: a plain text, a JSON document
ErrorBodies == {"Internal Server Error", "{\"status\":\"queued\"}"}

\* the answers of the backend to the upload: any body with a 2xx status
Answers ==
    {a \in Statuses \X Bodies : a[1] \in 200..299 \/ a[2] \in ErrorBodies}

NoResponse == [status_code |-> 0, text |-> ""]

\* exceptions of requests: ReadTimeout and ConnectTimeout are Timeouts,
\* ConnectTimeout is a ConnectionError too, TooManyRedirects is neither
Exceptions == {"ReadTimeout", "ConnectTimeout", "ConnectionError", "TooManyRedirects"}

IsTimeout(e) == e \in {"ReadTimeout", "ConnectTimeout"}

IsConnectionError(e) == e \in {"ConnectionError", "ConnectTimeout"}

----------------------------------------------------------------------------
(* Effects and messages *)

\* what a network call comes to: a response, or an exception of requests
Answer(status, text) == [status |-> status, text |-> text, exc |-> ""]

Raised(e) == [status |-> 0, text |-> "", exc |-> e]

NoOutcome == [status |-> 0, text |-> "", exc |-> ""]

Get(base, path, timeout, outcome) ==
    [op |-> "GET", base |-> base, path |-> path, video |-> <<>>,
     filename |-> "", secs |-> timeout, outcome |-> outcome]

Post(base, path, video, filename, timeout, outcome) ==
    [op |-> "POST", base |-> base, path |-> path, video |-> video,
     filename |-> filename, secs |-> timeout, outcome |-> outcome]

Sleep(secs) ==
    [op |-> "sleep", base |-> "", path |-> "", video |-> <<>>,
     filename |-> "", secs |-> secs, outcome |-> NoOutcome]

Msg(kind, n, s) == [kind |-> kind, n |-> n, s |-> s]

----------------------------------------------------------------------------
Init ==
    /\ backend_url = BACKEND_URL
    /\ uploaded_file = NoFile
    /\ pos = 0
    /\ pc = "idle"
    /\ attempt = 0
    /\ response = NoResponse
    /\ log = <<>>
    /\ msgs = <<>>
    /\ overrun = FALSE
    /\ frontend_ok = "unset"
    /\ backend_ok = "unset"

----------------------------------------------------------------------------
(* response.json(), line 278, and result.get('jobId', 'N/A'), line 283 *)

\* response.json() raises unless the text is a JSON document
JsonValid(text) ==
    text \in {"{\"jobId\":\"j1\"}", "{\"jobId\":7}", "{\"status\":\"queued\"}", "[\"j1\"]"}

\* only a JSON object parses to a dict, the one JSON value with a get method
JsonIsDict(text) ==
    text \in {"{\"jobId\":\"j1\"}", "{\"jobId\":7}", "{\"status\":\"queued\"}"}

\* the dict response.json() returns, values tagged with their Python type
JsonDict(text) ==
    CASE text = "{\"jobId\":\"j1\"}" -> [jobId |-> [t |-> "str", v |-> "j1"]]
      [] text = "{\"jobId\":7}" -> [jobId |-> [t |-> "int", v |-> 7]]
      [] text = "{\"status\":\"queued\"}" -> [status |-> [t |-> "str", v |-> "queued"]]

\* how an f-string renders a value
PyStr(val) == IF val.t = "int" THEN ToString(val.v) ELSE val.v

\* mutant: the field is looked up under another key
JobIdShown_wrongKey(d) == IF "jobid" \in DOMAIN d THEN PyStr(d.jobid) ELSE "N/A"

\* f"{result.get('jobId', 'N/A')}"
JobIdShown(d) == IF "jobId" \in DOMAIN d THEN PyStr(d.jobId) ELSE "N/A"

----------------------------------------------------------------------------
(* The conditions of the retry loop *)

\* mutant: the probe catches timeouts only
ProbeCaught_timeoutOnly(e) == IsTimeout(e)

\* line 250: a bare `except:` catches every exception of the probe
ProbeCaught(e) == TRUE

\* mutant: every exception of the attempt is retried (except Exception)
Retryable_any(e) == TRUE

\* lines 261 and 268: the two except clauses of the attempt
Retryable(e) == IsTimeout(e) \/ IsConnectionError(e)

\* mutant: the last attempt is retried too
MayRetry_late(a) == a < max_retries

\* mutant: the loop gives up one attempt early
MayRetry_early(a) == a < max_retries - 2

\* lines 262 and 269
MayRetry(a) == a < max_retries - 1

\* mutant: every status below 400 counts as success (response.ok)
IsSuccessStatus_ok(s) == s < 400

\* line 277
IsSuccessStatus(s) == s = HTTP_OK

\* lines 263 and 270: Timeout is the first except clause, so a ConnectTimeout
\* gets the timeout warning
RetryWarning(e) == IF IsTimeout(e) THEN "timeout_retry" ELSE "connection_retry"

\* f.read() of requests' multipart encoding: from the current position to the end
ReadAll(data, p) == SubSeq(data, p + 1, Len(data))

\* mutant: the exception is swallowed, nothing is shown
ShowError_silent(m, e) == m

\* lines 308-310: the handler of every exception that leaves the loop
ShowError(m, e) == m \o <<Msg("error", 0, e), Msg("tip", 0, "")>>

\* an exception e raised inside the try of line 243, after effects l and messages m
Raise(e, l, m) ==
    /\ log' = l
    /\ IF Retryable(e) /\ MayRetry(attempt)
       THEN /\ msgs' = Append(m, Msg(RetryWarning(e), retry_delay, ""))
            /\ pc' = "sleep"
       ELSE /\ msgs' = ShowError(m, e)
            /\ pc' = "done"

----------------------------------------------------------------------------
(* The session: widgets of the page *)

\* the script is not running: every event of the page (a widget changed, a
\* button pressed) runs it again from the top, and what the run before it
\* showed (the output of a conversion, the status of the backend) is gone
AtRest == pc \in {"idle", "done", "checked"}

\* lines 105-110: the sidebar text input stores its value in the session;
\* the page is drawn again, and the uploader hands out the file at position 0
SetBackendUrl(u) ==
    /\ AtRest
    /\ backend_url' = u
    /\ pos' = 0
    /\ pc' = "idle"
    /\ attempt' = 0
    /\ response' = NoResponse
    /\ log' = <<>>
    /\ msgs' = <<>>
    /\ UNCHANGED uploaded_file
    /\ UNCHANGED dvars
    /\ overrun' = FALSE

\* lines 219-223: the user picks a file. The uploader refuses, before the
\* script sees it, a file above the limit the server is configured with, and
\* hands every other file to the script, which runs again from the top
ChooseFile(f, limit) ==
    /\ AtRest
    /\ f.size <= limit
    /\ uploaded_file' = f
    /\ pos' = 0
    /\ pc' = "idle"
    /\ attempt' = 0
    /\ response' = NoResponse
    /\ log' = <<>>
    /\ msgs' = <<>>
    /\ UNCHANGED backend_url
    /\ UNCHANGED dvars
    /\ overrun' = FALSE

\* lines 219-225: the user removes the file from the uploader; the page is
\* drawn without preview and without the conversion button
RemoveFile ==
    /\ AtRest
    /\ uploaded_file # NoFile
    /\ uploaded_file' = NoFile
    /\ pos' = 0
    /\ pc' = "idle"
    /\ attempt' = 0
    /\ response' = NoResponse
    /\ log' = <<>>
    /\ msgs' = <<>>
    /\ overrun' = FALSE
    /\ UNCHANGED backend_url
    /\ UNCHANGED dvars

\* lines 225-240: the button is pressed with a file present; the run gets the
\* file object at position 0
StartConversion ==
    /\ AtRest
    /\ uploaded_file # NoFile
    /\ pos' = 0
    /\ attempt' = 0
    /\ response' = NoResponse
    /\ log' = <<>>
    /\ msgs' = <<>>
    /\ pc' = "announce"
    /\ UNCHANGED <<backend_url, uploaded_file>>
    /\ UNCHANGED dvars
    /\ overrun' = FALSE

----------------------------------------------------------------------------
(* The retry loop, lines 242-274 *)

\* mutant: the loop variable is shown as it is, counting from 0
Announce_zeroBased ==
    /\ pc = "announce"
    /\ msgs' = Append(msgs, Msg("attempt", attempt, ToString(max_retries)))
    /\ pc' = "probe"
    /\ UNCHANGED <<backend_url, uploaded_file, pos, attempt, response, log>>
    /\ UNCHANGED dvars
    /\ UNCHANGED overrun

\* line 244: f"Upload attempt {attempt + 1}/{max_retries}..."
Announce ==
    /\ pc = "announce"
    /\ msgs' = Append(msgs, Msg("attempt", attempt + 1, ToString(max_retries)))
    /\ pc' = "probe"
    /\ UNCHANGED <<backend_url, uploaded_file, pos, attempt, response, log>>
    /\ UNCHANGED dvars
    /\ UNCHANGED overrun

\* line 248: the wake probe
WakeRequest(outcome) == Get(BACKEND_URL, "/", WAKE_TIMEOUT, outcome)

\* lines 247-249: the wake probe answers, with whatever status
ProbeAnswers(status, late) ==
    /\ pc = "probe"
    /\ log' = Append(log, WakeRequest(Answer(status, "")))
    /\ msgs' = Append(msgs, Msg("awake", 0, ""))
    /\ pc' = "post"
    /\ UNCHANGED <<backend_url, uploaded_file, pos, attempt, response>>
    /\ UNCHANGED dvars
    /\ overrun' = (overrun \/ late)

\* lines 247-251: the wake probe raises
ProbeFails(e, late) ==
    /\ pc = "probe"
    /\ IF ProbeCaught(e)
       THEN /\ log' = Append(log, WakeRequest(Raised(e)))
            /\ msgs' = Append(msgs, Msg("sleeping", 0, ""))
            /\ pc' = "post"
       ELSE Raise(e, Append(log, WakeRequest(Raised(e))), msgs)
    /\ UNCHANGED <<backend_url, uploaded_file, pos, attempt, response>>
    /\ UNCHANGED dvars
    /\ overrun' = (overrun \/ late)

\* the request line 254 sends: the body is encoded, reading the file object,
\* before anything is sent
UploadRequest(outcome) ==
    Post(BACKEND_URL, "/api/upload", ReadAll(uploaded_file.data, pos),
         uploaded_file.name, UPLOAD_TIMEOUT, outcome)

\* mutant: an answer with a 5xx status is retried like a transport failure
UploadAnswers_retry5xx(status, text, late) ==
    /\ pc = "post"
    /\ log' = Append(log, UploadRequest(Answer(status, text)))
    /\ pos' = Len(uploaded_file.data)
    /\ response' = [status_code |-> status, text |-> text]
    /\ pc' = IF status >= 500 /\ MayRetry(attempt) THEN "sleep" ELSE "respond"
    /\ UNCHANGED <<backend_url, uploaded_file, attempt, msgs>>
    /\ UNCHANGED dvars
    /\ overrun' = (overrun \/ late)

\* lines 254-260: the upload is answered; break
UploadAnswers(status, text, late) ==
    /\ pc = "post"
    /\ log' = Append(log, UploadRequest(Answer(status, text)))
    /\ pos' = Len(uploaded_file.data)
    /\ response' = [status_code |-> status, text |-> text]
    /\ pc' = "respond"
    /\ UNCHANGED <<backend_url, uploaded_file, attempt, msgs>>
    /\ UNCHANGED dvars
    /\ overrun' = (overrun \/ late)

\* lines 254-274: the upload raises
UploadFails(e, late) ==
    /\ pc = "post"
    /\ pos' = Len(uploaded_file.data)
    /\ Raise(e, Append(log, UploadRequest(Raised(e))), msgs)
    /\ UNCHANGED <<backend_url, uploaded_file, attempt, response>>
    /\ UNCHANGED dvars
    /\ overrun' = (overrun \/ late)

\* mutant: continue without sleeping
Backoff_noSleep ==
    /\ pc = "sleep"
    /\ attempt' = attempt + 1
    /\ pc' = "announce"
    /\ UNCHANGED <<backend_url, uploaded_file, pos, response, log, msgs>>
    /\ UNCHANGED dvars
    /\ UNCHANGED overrun

\* lines 264-265 and 271-272: time.sleep(retry_delay); continue
Backoff ==
    /\ pc = "sleep"
    /\ log' = Append(log, Sleep(retry_delay))
    /\ attempt' = attempt + 1
    /\ pc' = "announce"
    /\ UNCHANGED <<backend_url, uploaded_file, pos, response, msgs>>
    /\ UNCHANGED dvars
    /\ UNCHANGED overrun

----------------------------------------------------------------------------
(* After the loop, lines 277-310 *)

Respond ==
    /\ pc = "respond"
    /\ msgs' =
         IF IsSuccessStatus(response.status_code)
         THEN IF ~JsonValid(response.text)
              THEN ShowError(msgs, "JSONDecodeError")
              ELSE IF ~JsonIsDict(response.text)
                   THEN ShowError(Append(msgs, Msg("success", 0, "")), "AttributeError")
                   ELSE msgs \o <<Msg("success", 0, ""),
                                  Msg("job", 0, JobIdShown(JsonDict(response.text))),
                                  Msg("processing", 0, "")>>
         ELSE Append(msgs, Msg("failed", 0, response.text))
    /\ pc' = "done"
    /\ UNCHANGED <<backend_url, uploaded_file, pos, attempt, response, log>>
    /\ UNCHANGED dvars
    /\ UNCHANGED overrun

----------------------------------------------------------------------------
Next ==
    \/ \E u \in Urls : SetBackendUrl(u)
    \/ \E f \in Files, limit \in UploadLimits : ChooseFile(f, limit)
    \/ RemoveFile
    \/ StartConversion
    \/ Announce
    \/ \E s \in ProbeStatuses, late \in BOOLEAN : ProbeAnswers(s, late)
    \/ \E e \in Exceptions, late \in BOOLEAN : ProbeFails(e, late)
    \/ \E a \in Answers, late \in BOOLEAN : UploadAnswers(a[1], a[2], late)
    \/ \E e \in Exceptions, late \in BOOLEAN : UploadFails(e, late)
    \/ Backoff
    \/ Respond

Spec == Init /\ [][Next]_vars

----------------------------------------------------------------------------
(* Outcomes of an operation, as shown to the user *)

Done == pc = "done"

Shown(kind) == \E i \in DOMAIN msgs : msgs[i].kind = kind

ShownWith(kind, s) == \E i \in DOMAIN msgs : msgs[i].kind = kind /\ msgs[i].s = s

Success == Done /\ Shown("job")

ServerError == Done /\ Shown("failed")

ErrorShown(e) == Done /\ ShownWith("error", e)

NetworkCalls == SelectSeq(log, LAMBDA c : c.op \in {"GET", "POST"})

Probes == SelectSeq(log, LAMBDA c : c.op = "GET")

Uploads == SelectSeq(log, LAMBDA c : c.op = "POST")

Waits == SelectSeq(log, LAMBDA c : c.op = "sleep")

TypeOK ==
    /\ backend_url \in Urls
    /\ uploaded_file \in Files \cup {NoFile}
    /\ pos \in 0..MaxBlocks
    /\ pc \in {"idle", "announce", "probe", "post", "sleep", "respond", "done"}
    /\ attempt \in 0..(max_retries - 1)
    /\ overrun \in BOOLEAN

----------------------------------------------------------------------------
(* Vocabulary of the claims *)

Is2xx(s) == s \in 200..299

Last(q) == q[Len(q)]

\* the upload POSTs of the operation that raised a timeout or connection error
TransportFailure(c) ==
    c.outcome.exc \in {"ReadTimeout", "ConnectTimeout", "ConnectionError"}

\* no statement of the handler shows a validation error
ValidationError == Done /\ Shown("validation_error")

----------------------------------------------------------------------------
\* C2: once an upload POST is answered, with whatever status, nothing follows
\* it (no probe, no POST, no sleep: the answered POST is the last effect of
\* the operation), and a non-2xx answer is reported as a server error that
\* carries the status and the body of that answer.
C2_ResponseIsTerminal ==
    \A i \in DOMAIN log :
        (log[i].op = "POST" /\ log[i].outcome.exc = "") =>
            /\ i = Len(log)
            /\ pc \in {"respond", "done"}
            /\ response.status_code = log[i].outcome.status
            /\ response.text = log[i].outcome.text
            /\ (Done /\ ~Is2xx(log[i].outcome.status)) =>
                  /\ ServerError
                  /\ ShownWith("failed", log[i].outcome.text)
                  /\ ~Shown("success")
                  /\ ~Shown("error")

\* an operation ended by HTTP 500 on the first attempt, not retried
C2_Witness ==
    /\ Done
    /\ ServerError
    /\ Len(Uploads) = 1
    /\ Uploads[1].outcome.status = 500
    /\ Waits = <<>>

\* C3: when every upload attempt times out, the operation ends in the network
\* error of a timeout after exactly max_retries uploads and max_retries - 1
\* sleeps, and no sleep follows the last failed attempt.
C3_AllTimeouts ==
    (Done /\ Uploads # <<>>
          /\ \A i \in DOMAIN Uploads : IsTimeout(Uploads[i].outcome.exc)) =>
        /\ Len(Uploads) = max_retries
        /\ Len(Waits) = max_retries - 1
        /\ \A i \in DOMAIN Waits : Waits[i].secs = retry_delay
        /\ Last(log).op = "POST"
        /\ ErrorShown(Last(Uploads).outcome.exc)
        /\ ~Shown("success")
        /\ ~Shown("failed")

C3_Witness ==
    /\ Done
    /\ Len(Uploads) = max_retries
    /\ \A i \in DOMAIN Uploads : Uploads[i].outcome.exc = "ReadTimeout"
    /\ ErrorShown("ReadTimeout")

\* the uploads of attempts 1 and 2 timed out and the third was answered 200
TwoTimeoutsThenOk ==
    /\ Done
    /\ Len(Uploads) = 3
    /\ IsTimeout(Uploads[1].outcome.exc)
    /\ IsTimeout(Uploads[2].outcome.exc)
    /\ Uploads[3].outcome.exc = ""
    /\ Uploads[3].outcome.status = 200

SuccessAtThirdAfterTwoWaits ==
    /\ Success
    /\ ~Shown("error")
    /\ attempt + 1 = 3
    /\ Len(Waits) = 2
    /\ \A i \in DOMAIN Waits : Waits[i].secs = retry_delay
    /\ \A i \in 1..2 : \E j \in DOMAIN log :
          /\ j < Len(log)
          /\ log[j] = Uploads[i]
          /\ log[j + 1].op = "sleep"

\* C4 as stated: uploads timing out on attempts 1 and 2 and answered HTTP 200
\* on attempt 3 give Success at attempt 3 after exactly two retry_delay waits,
\* one after each failed attempt.
C4_Original == TwoTimeoutsThenOk => SuccessAtThirdAfterTwoWaits

\* C4 amended: the same, when the body of the 200 answer is a JSON object.
C4_ThirdAttemptSucceeds ==
    (TwoTimeoutsThenOk /\ JsonIsDict(Uploads[3].outcome.text)) =>
        SuccessAtThirdAfterTwoWaits

C4_Witness ==
    /\ TwoTimeoutsThenOk
    /\ JsonIsDict(Uploads[3].outcome.text)
    /\ Success

\* every probe, whatever came of it, is followed by the upload of its attempt
ProbeNeverBlocks ==
    \A i \in DOMAIN log :
        log[i].op = "GET" =>
            \/ i = Len(log) /\ pc = "post"
            \/ i < Len(log) /\ log[i + 1].op = "POST"

\* the first upload was answered 200
FirstUploadOk ==
    /\ Done
    /\ Len(Uploads) = 1
    /\ Uploads[1].outcome.exc = ""
    /\ Uploads[1].outcome.status = 200

\* C5 as stated: the probe is advisory (after every outcome of the probe the
\* upload of the same attempt is issued), and an upload answered HTTP 200 on
\* the first attempt gives Success at attempt 1.
C5_Original ==
    /\ ProbeNeverBlocks
    /\ FirstUploadOk => (Success /\ ~Shown("error") /\ attempt + 1 = 1)

\* C5 amended: the same, when the body of the 200 answer is a JSON object.
C5_ProbeIsAdvisory ==
    /\ ProbeNeverBlocks
    /\ (FirstUploadOk /\ JsonIsDict(Uploads[1].outcome.text)) =>
          (Success /\ ~Shown("error") /\ attempt + 1 = 1)

\* success at the first attempt after a probe that raised
C5_Witness ==
    /\ FirstUploadOk
    /\ Success
    /\ Probes[1].outcome.exc = "ConnectionError"
    /\ Shown("sleeping")

\* C6: every upload POST, the one of a retry included, carries the complete
\* content of the file in field video and its name in field filename.
C6_RetryCarriesPayload ==
    \A i \in DOMAIN Uploads :
        /\ Uploads[i].video = uploaded_file.data
        /\ Uploads[i].filename = uploaded_file.name

\* C7: the probe and the upload go to the backend URL of the session.
C7_CallsTargetSessionUrl ==
    \A i \in DOMAIN NetworkCalls : NetworkCalls[i].base = backend_url

\* C8: a timeout or connection error is shown as the outcome only when it is
\* the failure of the upload of attempt max_retries, and the error shown is
\* that last failure, whatever the earlier failures were; the failure of an
\* earlier attempt is never the outcome.
C8_NetworkErrorOnlyAtLastAttempt ==
    /\ \A e \in Exceptions :
          (ErrorShown(e) /\ Retryable(e)) =>
              /\ Len(Uploads) = max_retries
              /\ attempt + 1 = max_retries
              /\ Last(log) = Last(Uploads)
              /\ Last(Uploads).outcome.exc = e
    /\ \A i \in DOMAIN Uploads :
          (TransportFailure(Uploads[i]) /\ i < max_retries) =>
              ~(Done /\ i = Len(Uploads))

\* a connection error is the outcome after two timeouts
C8_Witness ==
    /\ ErrorShown("ConnectionError")
    /\ ~ErrorShown("ReadTimeout")
    /\ Len(Uploads) = max_retries
    /\ Uploads[1].outcome.exc = "ReadTimeout"
    /\ Uploads[2].outcome.exc = "ConnectTimeout"

\* C9 as stated: every answer with a 2xx status is reported as Success, every
\* answer with another status as a server error with its body, and no answer
\* is reported as an exception.
C9_Original ==
    (Done /\ response # NoResponse) =>
        /\ Is2xx(response.status_code) => (Success /\ ~ServerError)
        /\ ~Is2xx(response.status_code) =>
              (ServerError /\ ShownWith("failed", response.text) /\ ~Success)
        /\ ~Shown("error")

\* C9 amended: an answer with status 200 whose body is a JSON object is
\* reported as Success; an answer with any other status, 2xx or not, is
\* reported as a server error with its body; an answer with status 200 whose
\* body is not a JSON object is reported through the error handler.
C9_Classification ==
    (Done /\ response # NoResponse) =>
        /\ (response.status_code = 200 /\ JsonIsDict(response.text)) =>
              (Success /\ ~ServerError /\ ~Shown("error"))
        /\ response.status_code # 200 =>
              /\ ServerError
              /\ ShownWith("failed", response.text)
              /\ ~Shown("success")
              /\ ~Shown("error")
        /\ (response.status_code = 200 /\ ~JsonIsDict(response.text)) =>
              (Shown("error") /\ ~Success /\ ~ServerError)

\* a 201 answer reported as a failed upload
C9_Witness ==
    /\ Done
    /\ response.status_code = 201
    /\ JsonIsDict(response.text)
    /\ ServerError

\* C10: the job id of a Success is the jobId field of the JSON body; a body
\* without the field gives the job id "N/A" (absent), and still a Success.
C10_JobIdRoundTrip ==
    /\ Success =>
          /\ response.text = "{\"jobId\":\"j1\"}" => ShownWith("job", "j1")
          /\ response.text = "{\"jobId\":7}" => ShownWith("job", "7")
          /\ response.text = "{\"status\":\"queued\"}" => ShownWith("job", "N/A")
          /\ Cardinality({i \in DOMAIN msgs : msgs[i].kind = "job"}) = 1
    /\ (Done /\ response.status_code = 200
              /\ response.text = "{\"status\":\"queued\"}") => Success

C10_Witness ==
    /\ Success
    /\ response.text = "{\"jobId\":7}"
    /\ ShownWith("job", "7")

----------------------------------------------------------------------------
(* The ways an operation ends *)

\* a timeout or connection error shown by the handler of lines 308-310
NetworkErrorExhausted ==
    Done /\ \E e \in Exceptions : Retryable(e) /\ ErrorShown(e)

\* any other exception shown by the handler of lines 308-310
OtherError ==
    Done /\ \E i \in DOMAIN msgs :
        msgs[i].kind = "error" /\ ~(msgs[i].s \in Exceptions /\ Retryable(msgs[i].s))

\* the number of the predicates of a set that hold
Count(flags) == Cardinality({i \in DOMAIN flags : flags[i]})

\* a step of the button handler, as opposed to a step of the user
HandlerStep ==
    \/ Announce
    \/ \E s \in ProbeStatuses, late \in BOOLEAN : ProbeAnswers(s, late)
    \/ \E e \in Exceptions, late \in BOOLEAN : ProbeFails(e, late)
    \/ \E a \in Answers, late \in BOOLEAN : UploadAnswers(a[1], a[2], late)
    \/ \E e \in Exceptions, late \in BOOLEAN : UploadFails(e, late)
    \/ Backoff
    \/ Respond

\* C11 as stated: every operation ends in exactly one of Success, ServerError,
\* NetworkError after the last attempt and ValidationError, whatever the probe
\* and the upload came to, and the handler takes no step after that.
C11_Original ==
    Done =>
        /\ Count(<<Success, ServerError, NetworkErrorExhausted, ValidationError>>) = 1
        /\ ~ENABLED HandlerStep

\* C11 amended: every operation ends in exactly one of Success, ServerError,
\* NetworkError after the last attempt, ValidationError and the error of any
\* other exception (an upload failure that is neither a timeout nor a
\* connection error, at any attempt, or a 200 answer whose body is not a JSON
\* object), and the handler takes no step after that.
C11_TerminalStates ==
    Done =>
        /\ Count(<<Success, ServerError, NetworkErrorExhausted, ValidationError,
                   OtherError>>) = 1
        /\ ~ENABLED HandlerStep

\* an operation ended by an exception that is no transport failure, at attempt 1
C11_Witness ==
    /\ Done
    /\ OtherError
    /\ ErrorShown("TooManyRedirects")
    /\ Len(Uploads) = 1
    /\ ~Success /\ ~ServerError /\ ~NetworkErrorExhausted

----------------------------------------------------------------------------
(* Waiting time *)

RECURSIVE SumSecs(_)
SumSecs(q) == IF q = <<>> THEN 0 ELSE q[1].secs + SumSecs(Tail(q))

\* the timeout= arguments of the calls and the sleeps of the operation, added
\* up. A timeout= argument bounds the connect and each wait for data, not the
\* call: the sum is the longest the operation can have waited only when no
\* call lasted longer than its argument
TimeAllowed == SumSecs(log)

\* the premise of the bound: each wake probe took at most wake_timeout and
\* each upload POST at most upload_timeout
WithinTimeouts == ~overrun

\* C12 as stated: with every call within its timeout, the wait of an
\* operation, sleeps included, never exceeds
\* (wake_timeout + upload_timeout) * max_attempts.
C12_Original ==
    WithinTimeouts =>
        TimeAllowed <= (WAKE_TIMEOUT + UPLOAD_TIMEOUT) * max_retries

\* C12 amended: with every call within its timeout, the wait of an operation,
\* sleeps included, never exceeds
\* (wake_timeout + upload_timeout) * max_attempts + retry_delay * (max_attempts - 1).
C12_WaitBound ==
    WithinTimeouts =>
        TimeAllowed <= (WAKE_TIMEOUT + UPLOAD_TIMEOUT) * max_retries
                         + retry_delay * (max_retries - 1)

\* the bound is met: three attempts run into their timeouts, none beyond, two
\* sleeps between
C12_Witness ==
    /\ Done
    /\ WithinTimeouts
    /\ Len(Uploads) = max_retries
    /\ Len(Waits) = max_retries - 1
    /\ TimeAllowed = (WAKE_TIMEOUT + UPLOAD_TIMEOUT) * max_retries
                       + retry_delay * (max_retries - 1)

----------------------------------------------------------------------------
(* Attempts *)

\* the announcements "Upload attempt k/max" shown so far
Announced == SelectSeq(msgs, LAMBDA m : m.kind = "attempt")

\* C14: attempt k is announced as "k/max_retries" before its network calls;
\* the announced k starts at 1, grows by one per attempt and never exceeds
\* max_retries, and an operation that has ended has announced as many
\* attempts as it has issued upload POSTs.
C14_AttemptsAnnounced ==
    /\ \A k \in DOMAIN Announced :
          /\ Announced[k].n = k
          /\ Announced[k].s = "3"
          /\ k <= max_retries
    /\ Len(Announced) = IF pc \in {"idle", "announce"} THEN attempt ELSE attempt + 1
    /\ Len(Probes) <= Len(Announced)
    /\ Len(Uploads) <= Len(Probes)
    /\ Len(Announced) <= Len(Uploads) + 1
    /\ Done => Len(Announced) = Len(Uploads)

\* three attempts, announced 1/3, 2/3, 3/3
C14_Witness ==
    /\ Done
    /\ Len(Announced) = 3
    /\ Announced[3].n = 3
    /\ Len(Uploads) = 3

\* C15: a new attempt is started exactly when the upload of the attempt before
\* raised a timeout or connection error and fewer than max_retries attempts
\* were made; any other failure of the upload ends the operation at once,
\* with no sleep and no further attempt, on attempt 1 too.
C15_RetryOnlyOnTransportFailure ==
    /\ \A i \in DOMAIN Uploads :
          i <= attempt => (TransportFailure(Uploads[i]) /\ i < max_retries)
    /\ (Uploads # <<>> /\ Len(Uploads) = attempt + 1) =>
          /\ (TransportFailure(Last(Uploads)) /\ Len(Uploads) < max_retries) =>
                (pc = "sleep" /\ ENABLED Backoff)
          /\ (Last(Uploads).outcome.exc # "" /\ ~TransportFailure(Last(Uploads))) =>
                /\ Done
                /\ ErrorShown(Last(Uploads).outcome.exc)
                /\ Last(log) = Last(Uploads)
                /\ Len(Waits) = Len(Uploads) - 1
          /\ pc = "sleep" =>
                (TransportFailure(Last(Uploads)) /\ Len(Uploads) < max_retries)

\* an upload failure that is no transport failure ends attempt 1 with no sleep
C15_Witness ==
    /\ Done
    /\ Len(Uploads) = 1
    /\ Uploads[1].outcome.exc = "TooManyRedirects"
    /\ Waits = <<>>
    /\ attempt = 0

\* the effect at place i of an operation: probe, upload, sleep, probe, ...
OpAt(i) == CASE i % 3 = 1 -> "GET" [] i % 3 = 2 -> "POST" [] OTHER -> "sleep"

\* C16: every attempt issues one wake probe and then at most one upload POST,
\* the probe of an attempt is over before its upload starts, a sleep comes
\* only between the failed upload of an attempt and the probe of the next;
\* so there are as many probes as attempts and one sleep fewer.
C16_Ordering ==
    /\ \A i \in DOMAIN log :
          /\ log[i].op = OpAt(i)
          /\ log[i].op = "sleep" => TransportFailure(log[i - 1])
          /\ (log[i].op = "POST" /\ i < Len(log)) => TransportFailure(log[i])
    /\ Len(Probes) = IF pc \in {"idle", "announce", "probe"} THEN attempt ELSE attempt + 1
    /\ Len(Probes) - Len(Uploads) \in {0, 1}
    /\ Len(Waits) = attempt
    /\ Done => (Len(Probes) = attempt + 1 /\ Len(Waits) = Len(Probes) - 1)

\* three attempts: probe, upload, sleep, probe, upload, sleep, probe, upload
C16_Witness ==
    /\ Done
    /\ Len(log) = 8
    /\ Len(Probes) = 3
    /\ Len(Waits) = 2

----------------------------------------------------------------------------
(* Termination *)

\* lines 231-240: the button was just pressed, in a session with the default
\* backend URL and any file the uploader can have handed over
SubmitInit ==
    /\ backend_url = BACKEND_URL
    /\ uploaded_file \in Files
    /\ pos = 0
    /\ pc = "announce"
    /\ attempt = 0
    /\ response = NoResponse
    /\ log = <<>>
    /\ msgs = <<>>
    /\ overrun = FALSE
    /\ frontend_ok = "unset"
    /\ backend_ok = "unset"

\* one operation, run to its end: the handler is not interrupted, every
\* network call returns or raises, a sleep ends, and the script goes on to
\* its next statement
SubmitSpec == SubmitInit /\ [][HandlerStep]_vars /\ WF_vars(HandlerStep)

\* C17: provided every network call returns or fails, an operation that was
\* started reaches its end, after at most max_retries upload POSTs and at most
\* max_retries - 1 sleeps.
C17_Termination ==
    /\ (pc = "announce" /\ attempt = 0) ~> Done
    /\ [](Len(Uploads) <= max_retries /\ Len(Waits) <= max_retries - 1)

\* an operation that ended after all its attempts and sleeps
C17_Witness ==
    /\ Done
    /\ Len(Uploads) = max_retries
    /\ Len(Waits) = max_retries - 1

----------------------------------------------------------------------------
(* The "Check Backend Status" button, lines 113-120, and                   *)
(* check_backend_status, lines 75-92.  pc: idle, health, root, checked.    *)

STATUS_SPINNER_SECS == 1

\* statuses of the answers to the two requests of the health check
HealthStatuses == {200, 204, 404, 503}

\* mutant: every status below 400 counts as online (response.ok)
IsOnlineStatus_ok(s) == s < 400

\* lines 83 and 90: response.status_code == 200
IsOnlineStatus(s) == s = HTTP_OK

\* line 82
HealthRequest(outcome) == Get(backend_url, "/api/health", WAKE_TIMEOUT, outcome)

\* line 89
RootRequest(outcome) == Get(backend_url, "/", WAKE_TIMEOUT, outcome)

\* lines 116-120: the result of check_backend_status as shown
ShowStatus(online) == <<Msg(IF online THEN "online" ELSE "offline", 0, "")>>

\* lines 113-115: the button is pressed; the spinner sleeps a second
PressCheckStatus ==
    /\ AtRest
    /\ pos' = 0
    /\ attempt' = 0
    /\ response' = NoResponse
    /\ log' = <<Sleep(STATUS_SPINNER_SECS)>>
    /\ msgs' = <<>>
    /\ pc' = "health"
    /\ UNCHANGED <<backend_url, uploaded_file>>
    /\ UNCHANGED dvars
    /\ overrun' = FALSE

\* lines 81-84: the health path answers; 200 returns True at once
HealthAnswers(status, late) ==
    /\ pc = "health"
    /\ log' = Append(log, HealthRequest(Answer(status, "")))
    /\ IF IsOnlineStatus(status)
       THEN /\ msgs' = ShowStatus(TRUE)
            /\ pc' = "checked"
       ELSE /\ msgs' = msgs
            /\ pc' = "root"
    /\ UNCHANGED <<backend_url, uploaded_file, pos, attempt, response>>
    /\ UNCHANGED dvars
    /\ overrun' = (overrun \/ late)

\* lines 81-86: the health request raises; except: pass
HealthFails(e, late) ==
    /\ pc = "health"
    /\ log' = Append(log, HealthRequest(Raised(e)))
    /\ pc' = "root"
    /\ UNCHANGED <<backend_url, uploaded_file, pos, attempt, response, msgs>>
    /\ UNCHANGED dvars
    /\ overrun' = (overrun \/ late)

\* lines 89-90: the root path answers
RootAnswers(status, late) ==
    /\ pc = "root"
    /\ log' = Append(log, RootRequest(Answer(status, "")))
    /\ msgs' = ShowStatus(IsOnlineStatus(status))
    /\ pc' = "checked"
    /\ UNCHANGED <<backend_url, uploaded_file, pos, attempt, response>>
    /\ UNCHANGED dvars
    /\ overrun' = (overrun \/ late)

\* lines 89-92: the root request raises; the outer except returns False
RootFails(e, late) ==
    /\ pc = "root"
    /\ log' = Append(log, RootRequest(Raised(e)))
    /\ msgs' = ShowStatus(FALSE)
    /\ pc' = "checked"
    /\ UNCHANGED <<backend_url, uploaded_file, pos, attempt, response>>
    /\ UNCHANGED dvars
    /\ overrun' = (overrun \/ late)

\* the session with its sidebar input and file uploader, and the status button
HealthNext ==
    \/ \E u \in Urls : SetBackendUrl(u)
    \/ \E f \in Files, limit \in UploadLimits : ChooseFile(f, limit)
    \/ RemoveFile
    \/ PressCheckStatus
    \/ \E s \in HealthStatuses, late \in BOOLEAN : HealthAnswers(s, late)
    \/ \E e \in Exceptions, late \in BOOLEAN : HealthFails(e, late)
    \/ \E s \in HealthStatuses, late \in BOOLEAN : RootAnswers(s, late)
    \/ \E e \in Exceptions, late \in BOOLEAN : RootFails(e, late)

HealthSpec == Init /\ [][HealthNext]_vars

\* C13: the backend is reported online exactly when GET base/api/health
\* answers 200, or, the health path having raised or answered another status,
\* GET base/ answers 200; the root path is not requested after a 200 of the
\* health path; and every failure of either request ends in "offline", never
\* in an exception.
C13_HealthCheck ==
    pc = "checked" =>
        /\ Len(log) \in {2, 3}
        /\ log[2].op = "GET" /\ log[2].base = backend_url /\ log[2].path = "/api/health"
        /\ log[2].outcome.status = 200 => Len(log) = 2
        /\ log[2].outcome.status # 200 =>
              /\ Len(log) = 3
              /\ log[3].op = "GET" /\ log[3].base = backend_url /\ log[3].path = "/"
        /\ Shown("online") <=>
              \/ log[2].outcome.status = 200
              \/ Len(log) = 3 /\ log[3].outcome.status = 200
        /\ Shown("offline") <=> ~Shown("online")
        /\ Len(msgs) = 1

\* the health path raised and the root path answered 200: online
C13_Witness ==
    /\ pc = "checked"
    /\ Len(log) = 3
    /\ log[2].outcome.exc = "ConnectionError"
    /\ log[3].outcome.status = 200
    /\ Shown("online")

-----------------------------------------------------------------------------
\* The deployment diagnostic (test_deployment.py): test_frontend_build, then
\* test_backend_connection against the local backend, then the report of main.

\* test_deployment.py line 56
LOCAL_BACKEND_URL == "http://localhost:3001"

\* test_deployment.py lines 16 and 20: timeout=10
DIAG_TIMEOUT == 10

\* the value of a Python bool as the locals of main hold it
PyBool(b) == IF b THEN "True" ELSE "False"

\* test_deployment.py line 26: every exception requests raises for a request
\* that was sent is a requests.exceptions.RequestException
IsRequestException(e) ==
    e \in {"ReadTimeout", "ConnectTimeout", "ConnectionError", "TooManyRedirects"}

\* a report that passes as soon as one of the two checks passed
AllPassed_either(f, b) == f = "True" \/ b = "True"

\* test_deployment.py line 62: if frontend_ok and backend_ok
AllPassed(f, b) == f = "True" /\ b = "True"

\* test_deployment.py lines 49-53 and 38-43: main starts and
\* test_frontend_build looks for dist/index.html
TestFrontendBuild(exists) ==
    /\ pc = "idle"
    /\ frontend_ok = "unset"
    /\ frontend_ok' = PyBool(exists)
    /\ msgs' = <<Msg(IF exists THEN "build_found" ELSE "build_missing", 0, "")>>
    /\ log' = <<>>
    /\ pc' = "diag_root"
    /\ UNCHANGED <<backend_url, uploaded_file, pos, attempt, response, backend_ok>>
    /\ overrun' = FALSE

\* lines 16-17: GET / answers, whatever the status
DiagRootAnswers(status, late) ==
    /\ pc = "diag_root"
    /\ log' = Append(log, Get(LOCAL_BACKEND_URL, "/", DIAG_TIMEOUT, Answer(status, "")))
    /\ msgs' = Append(msgs, Msg("reachable", status, ""))
    /\ pc' = "diag_api"
    /\ UNCHANGED <<backend_url, uploaded_file, pos, attempt, response>>
    /\ UNCHANGED dvars
    /\ overrun' = (overrun \/ late)

\* lines 16, 26-28 and 57: GET / raises; the function returns False
DiagRootFails(e, late) ==
    /\ pc = "diag_root"
    /\ IsRequestException(e)
    /\ log' = Append(log, Get(LOCAL_BACKEND_URL, "/", DIAG_TIMEOUT, Raised(e)))
    /\ msgs' = Append(msgs, Msg("connection_failed", 0, e))
    /\ backend_ok' = PyBool(FALSE)
    /\ pc' = "diag_report"
    /\ UNCHANGED <<backend_url, uploaded_file, pos, attempt, response, frontend_ok>>
    /\ overrun' = (overrun \/ late)

\* lines 20-24, 30 and 57: GET /api/status/test answers; the function returns
\* True after one of the two prints
DiagApiAnswers(status, late) ==
    /\ pc = "diag_api"
    /\ log' = Append(log, Get(LOCAL_BACKEND_URL, "/api/status/test", DIAG_TIMEOUT,
                              Answer(status, "")))
    /\ msgs' = Append(msgs, IF status = HTTP_OK
                               THEN Msg("api_working", 0, "")
                               ELSE Msg("api_status", status, ""))
    /\ backend_ok' = PyBool(TRUE)
    /\ pc' = "diag_report"
    /\ UNCHANGED <<backend_url, uploaded_file, pos, attempt, response, frontend_ok>>
    /\ overrun' = (overrun \/ late)

\* lines 20, 26-28 and 57: GET /api/status/test raises
DiagApiFails(e, late) ==
    /\ pc = "diag_api"
    /\ IsRequestException(e)
    /\ log' = Append(log, Get(LOCAL_BACKEND_URL, "/api/status/test", DIAG_TIMEOUT,
                              Raised(e)))
    /\ msgs' = Append(msgs, Msg("connection_failed", 0, e))
    /\ backend_ok' = PyBool(FALSE)
    /\ pc' = "diag_report"
    /\ UNCHANGED <<backend_url, uploaded_file, pos, attempt, response, frontend_ok>>
    /\ overrun' = (overrun \/ late)

\* lines 59-76: the report of main
DiagReport ==
    /\ pc = "diag_report"
    /\ msgs' = IF AllPassed(frontend_ok, backend_ok)
                  THEN Append(msgs, Msg("all_passed", 0, ""))
                  ELSE Append(msgs, Msg("some_failed", 0, ""))
                       \o (IF frontend_ok # "True"
                              THEN <<Msg("hint_frontend", 0, "")>> ELSE <<>>)
                       \o (IF backend_ok # "True"
                              THEN <<Msg("hint_backend", 0, "")>> ELSE <<>>)
    /\ pc' = "diag_done"
    /\ UNCHANGED <<backend_url, uploaded_file, pos, attempt, response, log>>
    /\ UNCHANGED dvars
    /\ UNCHANGED overrun

DiagNext ==
    \/ \E x \in BOOLEAN : TestFrontendBuild(x)
    \/ \E s \in Statuses, late \in BOOLEAN : DiagRootAnswers(s, late)
    \/ \E e \in Exceptions, late \in BOOLEAN : DiagRootFails(e, late)
    \/ \E s \in Statuses, late \in BOOLEAN : DiagApiAnswers(s, late)
    \/ \E e \in Exceptions, late \in BOOLEAN : DiagApiFails(e, late)
    \/ DiagReport

DiagSpec == Init /\ [][DiagNext]_vars

\* test_backend_connection has returned
BackendTested == backend_ok # "unset"

\* C18: test_backend_connection returns False exactly when one of its two
\* GET requests (the root path, then /api/status/test) raised a request
\* exception, and True for every pair of statuses received, 200 or not; the
\* second request is not issued when the first raised; and main reports
\* "All tests passed" exactly when both the frontend-build check and the
\* backend-connection check returned True.
C18_Diagnostic ==
    /\ BackendTested =>
          /\ Len(log) \in {1, 2}
          /\ log[1].op = "GET" /\ log[1].base = LOCAL_BACKEND_URL /\ log[1].path = "/"
          /\ log[1].outcome.exc # "" => Len(log) = 1
          /\ log[1].outcome.exc = "" =>
                /\ Len(log) = 2
                /\ log[2].op = "GET" /\ log[2].base = LOCAL_BACKEND_URL
                /\ log[2].path = "/api/status/test"
          /\ backend_ok = "False" <=> \E i \in DOMAIN log : log[i].outcome.exc # ""
          /\ backend_ok = "True" <=>
                /\ Len(log) = 2
                /\ \A i \in DOMAIN log : log[i].outcome.status \in Statuses
    /\ pc = "diag_done" =>
          /\ BackendTested
          /\ Shown("all_passed") <=> (frontend_ok = "True" /\ backend_ok = "True")
          /\ Shown("some_failed") <=> ~Shown("all_passed")

\* the build exists, both paths answered with statuses other than 200, and
\* the report is "All tests passed"
C18_Witness ==
    /\ pc = "diag_done"
    /\ frontend_ok = "True"
    /\ backend_ok = "True"
    /\ log[1].outcome.status = 500
    /\ log[2].outcome.status = 404
    /\ Shown("all_passed")

====
